---- MODULE Spec2Model ----
(***************************************************************************)
(* Model of h3llo.py: WindowsForensicTool (run_command, the two            *)
(* command-set collectors, scan_network, create_results_table,             *)
(* export_results, run_scan) and main.                                     *)
(*                                                                         *)
(* Text is a sequence of fragments.  Text the program inspects (captured   *)
(* stdout, subnet prefixes, addresses, the reply marker) is written one    *)
(* character per fragment; text it only passes along (command lines,       *)
(* labels, messages) is one fragment per literal.                          *)
(* An Optional value is <<>> (None) or <<v>>.                              *)
(***************************************************************************)
EXTENDS Integers, Sequences, FiniteSets, TLC

VARIABLES
    pc,            \* position of the main thread
    caller,        \* who called the running collector: "run_scan" or "test"
    platformName,  \* what platform.system() returns on this host
    outdir,        \* state of os.path.dirname(args.output)
    subnet,        \* Optional text: args.subnet / the subnet parameter
    runner,        \* the host: what each external command does when run
    clock,         \* datetime.now()
    results,       \* Optional record: self.results
    which,         \* the Report field the running collector works for
    idx,           \* loop position inside the running collector
    info,          \* local dict system_info / network_info
    active_hosts,  \* local list of scan_network
    ret,           \* Optional: value returned by the last finished collector
    total,         \* total of the collector's progress subtask
    advanced,      \* number of advance=1 updates of that subtask
    issued,        \* the command line of every run_command call so far
    last,          \* Optional: the latest run_command call (command, host outcome, result)
    observed,      \* host outcomes of the commands the running collector has run
    spawned,       \* number of subprocess.Popen calls
    orphans,       \* children still running although their run_command returned
    table,         \* Optional: rows built by create_results_table
    exported,      \* Optional: what json.dump wrote
    console,       \* messages printed on the console
    exitcode,      \* Optional: exit status of the process
    writes,        \* number of assignments to each field of self.results
    calls,         \* collectors invoked, in order
    sweeps         \* results of earlier scan_network calls of a test

vars == <<pc, caller, platformName, outdir, subnet, runner, clock, results, which,
          idx, info, active_hosts, ret, total, advanced, issued, last, observed,
          spawned, orphans,
          table, exported, console, exitcode, writes, calls, sweeps>>

\* ------------------------------------------------------------------ text

Nothing == <<>>
Some(v) == <<v>>

Whitespace == {" ", "\n", "\t", "\r"}

RECURSIVE LStrip(_)
LStrip(s) == IF s # <<>> /\ Head(s) \in Whitespace THEN LStrip(Tail(s)) ELSE s

RECURSIVE RStrip(_)
RStrip(s) ==
    IF s # <<>> /\ s[Len(s)] \in Whitespace THEN RStrip(SubSeq(s, 1, Len(s) - 1)) ELSE s

\* str.strip()
Strip(s) == RStrip(LStrip(s))

\* sub in s
Contains(sub, s) ==
    \E k \in 0..(Len(s) - Len(sub)) : SubSeq(s, k + 1, k + Len(sub)) = sub

EndsWith(s, suffix) ==
    /\ Len(suffix) <= Len(s)
    /\ SubSeq(s, Len(s) - Len(suffix) + 1, Len(s)) = suffix

Digits == <<"0", "1", "2", "3", "4", "5", "6", "7", "8", "9">>

\* str(i) for i >= 0
RECURSIVE IntToStr(_)
IntToStr(n) ==
    IF n < 10 THEN <<Digits[n + 1]>> ELSE Append(IntToStr(n \div 10), Digits[(n % 10) + 1])

\* value.split('\n')[0]
RECURSIVE FirstLine(_)
FirstLine(s) ==
    IF s = <<>> \/ Head(s) = "\n" THEN <<>> ELSE <<Head(s)>> \o FirstLine(Tail(s))

\* sep.join(items)
RECURSIVE Join(_, _)
Join(sep, items) ==
    IF items = <<>> THEN <<>>
    ELSE IF Len(items) = 1 THEN items[1]
    ELSE items[1] \o sep \o Join(sep, Tail(items))

EmptyMap == [k \in {} |-> <<>>]
Put(m, k, v) == [x \in (DOMAIN m) \cup {k} |-> IF x = k THEN v ELSE m[x]]

\* ------------------------------------------------- the program's literals

SystemCommands == <<
    [label |-> "Hostname",         command |-> <<"hostname">>],
    [label |-> "System Info",      command |-> <<"systeminfo">>],
    [label |-> "User Accounts",    command |-> <<"net users">>],
    [label |-> "Admin Group",      command |-> <<"net localgroup administrators">>],
    [label |-> "Running Services", command |-> <<"wmic service list brief | findstr \"Running\"">>] >>

NetworkCommands == <<
    [label |-> "Network Shares",     command |-> <<"net share">>],
    [label |-> "Active Connections", command |-> <<"netstat -naob">>],
    [label |-> "Routing Table",      command |-> <<"route print">>],
    [label |-> "ARP Cache",          command |-> <<"arp -a">>],
    [label |-> "IP Configuration",   command |-> <<"ipconfig /all">>] >>

Commands(w) == IF w = "system_info" THEN SystemCommands ELSE NetworkCommands
Collector(w) == IF w = "system_info" THEN "get_system_info" ELSE "get_network_info"
Labels(w) == {Commands(w)[k].label : k \in 1..Len(Commands(w))}

FirstHost == 1
\* The end of the range as it would be if the last address were swept too.
EndHostInclusive == 255 + 1
EndHost == 255
SweepTotal == 254

PingPrefix == "ping -n 1 -w 200 "
ReplyMarker == <<"R", "e", "p", "l", "y", " ", "f", "r", "o", "m">>
TimedOutMessage == <<"Command timed out">>

\* f"{subnet}.{i}"
HostAddress(net, i) == net \o <<".">> \o IntToStr(i)
\* f"ping -n 1 -w 200 {ip}"
PingCommand(ip) == <<PingPrefix>> \o ip

\* platform.system().lower()
Lower(name) ==
    CASE name = "Windows" -> "windows"
      [] name = "Linux"   -> "linux"
      [] name = "Darwin"  -> "darwin"
      [] OTHER            -> name

\* bool(x) of a text or list
Truthy(s) == s # <<>>


\* ------------------------------------------------------------- the host

\* What one run of an external command does: it exits (communicate returns the
\* captured stdout and stderr; the exit status is not read), it outlives the 30 s
\* wait (TimeoutExpired), or Popen or communicate raises another Exception, as
\* when the process cannot be launched (reason is str(e)).
Exit(out, err, code) ==
    [kind |-> "exit", stdout |-> out, stderr |-> err, code |-> code, reason |-> <<>>]
Hang == [kind |-> "timeout", stdout |-> <<>>, stderr |-> <<>>, code |-> 0, reason |-> <<>>]
LaunchError(why) ==
    [kind |-> "launch_error", stdout |-> <<>>, stderr |-> <<>>, code |-> 0, reason |-> why]

AccessDenied == <<"Access is denied.\n">>
OutOfMemory == <<"[Errno 12] Cannot allocate memory">>

ExitOk == Exit(<<" ", "H", "1", "\n">>, <<>>, 0)
ExitOkStatus1 == Exit(<<"a", "\n", "b">>, <<>>, 1)
ExitBlank == Exit(<<" ", "\n">>, <<>>, 0)
ExitErr == Exit(<<"H", "1">>, AccessDenied, 1)
ExitErrStatus0 == Exit(<<>>, AccessDenied, 0)
ExitLaunchFailed == LaunchError(OutOfMemory)

ShellOutcomes ==
    {ExitOk, ExitOkStatus1, ExitBlank, ExitErr, ExitErrStatus0, Hang, ExitLaunchFailed}

ShellCommandTexts ==
    {Head(SystemCommands[k].command) : k \in 1..Len(SystemCommands)}
        \cup {Head(NetworkCommands[k].command) : k \in 1..Len(NetworkCommands)}

ReplyOut == <<"\n", "R", "e", "p", "l", "y", " ", "f", "r", "o", "m", " ", "h", ":", "\n">>
SilentOut == <<"R", "e", "q", "u", "e", "s", "t", " ", "t", "i", "m", "e", "d", " ",
               "o", "u", "t", ".", "\n">>

Behaviours == {"reply", "silent", "slow", "noisy_reply", "noisy_silent", "broken"}

PingOutcomeOf(b) ==
    CASE b = "reply"        -> Exit(ReplyOut, <<>>, 0)
      [] b = "silent"       -> Exit(SilentOut, <<>>, 1)
      [] b = "slow"         -> Hang
      [] b = "noisy_reply"  -> Exit(ReplyOut, AccessDenied, 0)
      [] b = "noisy_silent" -> Exit(SilentOut, AccessDenied, 1)
      [] OTHER              -> ExitLaunchFailed

DigitValue(c) == CHOOSE d \in 0..9 : Digits[d + 1] = c
IsDigit(c) == \E d \in 0..9 : Digits[d + 1] = c

\* int(s), or -1 when s is not a decimal numeral
RECURSIVE StrToInt(_)
StrToInt(s) ==
    IF s = <<>> \/ \E k \in 1..Len(s) : ~IsDigit(s[k]) THEN -1
    ELSE IF Len(s) = 1 THEN DigitValue(s[1])
    ELSE 10 * StrToInt(SubSeq(s, 1, Len(s) - 1)) + DigitValue(s[Len(s)])

\* position of the last "." of an address, 0 when there is none
LastDot(ip) ==
    IF \E k \in 1..Len(ip) : ip[k] = "."
    THEN CHOOSE k \in 1..Len(ip) : ip[k] = "." /\ \A j \in (k + 1)..Len(ip) : ip[j] # "."
    ELSE 0
NetOf(ip) == SubSeq(ip, 1, LastDot(ip) - 1)
HostNumberOf(ip) == StrToInt(SubSeq(ip, LastDot(ip) + 1, Len(ip)))

\* The host answers a ping of an address of its own network as the machine at
\* that address behaves; any other target stays silent.
PingOutcome(ip) ==
    IF NetOf(ip) = runner.net /\ HostNumberOf(ip) \in DOMAIN runner.hosts
    THEN PingOutcomeOf(runner.hosts[HostNumberOf(ip)])
    ELSE PingOutcomeOf("silent")

\* The outcomes the host may produce for a command line.
Respond(command) ==
    IF Head(command) = PingPrefix
    THEN {PingOutcome(Tail(command))}
    ELSE runner.shell[Head(command)]

\* ------------------------------------------------------------ run_command

\* run_command as it would be if it judged a command by its exit status.
RunCommandChecksStatus(o) ==
    CASE o.kind = "exit" ->
            [output |-> Strip(o.stdout),
             error |-> IF o.code # 0 THEN <<"exit status">> ELSE o.stderr,
             raised |-> FALSE, popen |-> 1, left_running |-> 0]
      [] o.kind = "timeout" ->
            [output |-> <<>>, error |-> TimedOutMessage, raised |-> FALSE,
             popen |-> 1, left_running |-> 1]
      [] OTHER ->
            [output |-> <<>>, error |-> o.reason, raised |-> FALSE,
             popen |-> 1, left_running |-> 0]

\* run_command as it would be if the expired wait were not handled.
RunCommandTimeoutRaises(o) ==
    CASE o.kind = "exit" ->
            [output |-> Strip(o.stdout), error |-> o.stderr, raised |-> FALSE,
             popen |-> 1, left_running |-> 0]
      [] o.kind = "timeout" ->
            [output |-> <<>>, error |-> <<>>, raised |-> TRUE,
             popen |-> 1, left_running |-> 1]
      [] OTHER ->
            [output |-> <<>>, error |-> o.reason, raised |-> FALSE,
             popen |-> 1, left_running |-> 0]

\* What run_command does for a host outcome: the pair it returns (or raised, when
\* an exception leaves it), the number of Popen calls it made and the number of
\* children it leaves running when it is left.  communicate(timeout=30) does not
\* end the child when the wait expires and the handler only returns.
RunCommand(o) ==
    CASE o.kind = "exit" ->
            [output |-> Strip(o.stdout), error |-> o.stderr, raised |-> FALSE,
             popen |-> 1, left_running |-> 0]
      [] o.kind = "timeout" ->
            [output |-> <<>>, error |-> TimedOutMessage, raised |-> FALSE,
             popen |-> 1, left_running |-> 1]
      [] OTHER ->
            [output |-> <<>>, error |-> o.reason, raised |-> FALSE,
             popen |-> 1, left_running |-> 0]

\* State change of one run_command(command) call on which the host does o.
Ran(command, o) ==
    /\ issued' = Append(issued, command)
    /\ last' = Some([command |-> command, outcome |-> o, result |-> RunCommand(o)])
    /\ spawned' = spawned + RunCommand(o).popen
    /\ orphans' = orphans + RunCommand(o).left_running
    /\ clock' = clock + 1


\* ------------------------------------------------------------ the program

NewReport(now) ==
    [timestamp |-> now, system_info |-> EmptyMap, network_info |-> EmptyMap,
     active_hosts |-> <<>>]

Fields == {"system_info", "network_info", "active_hosts"}

\* The assignment as it would be if storing a phase's result stamped the Report anew.
AssignRestamps(field, value) ==
    /\ results' = Some([results[1] EXCEPT ![field] = value, !.timestamp = clock])
    /\ writes' = [writes EXCEPT ![field] = @ + 1]

\* self.results[field] = value
Assign(field, value) ==
    /\ results' = Some([results[1] EXCEPT ![field] = value])
    /\ writes' = [writes EXCEPT ![field] = @ + 1]

\* Entry of get_system_info / get_network_info: the empty dict and the subtask.
EnterCollector(w) ==
    /\ pc' = "collect"
    /\ which' = w
    /\ idx' = 1
    /\ info' = EmptyMap
    /\ observed' = <<>>
    /\ total' = Len(Commands(w))
    /\ advanced' = 0
    /\ calls' = Append(calls, Collector(w))

\* Entry of scan_network: the empty list and the subtask.
EnterSweep ==
    /\ pc' = "sweep"
    /\ which' = "active_hosts"
    /\ idx' = FirstHost
    /\ active_hosts' = <<>>
    /\ total' = SweepTotal
    /\ advanced' = 0
    /\ calls' = Append(calls, "scan_network")

\* The process ends with the given exit status.
Terminate(code) ==
    /\ pc' = "done"
    /\ exitcode' = Some(code)

\* An exception leaves a collector: main's handler reports it and main returns;
\* in a test it reaches the test.
Propagated ==
    IF caller = "test"
    THEN /\ pc' = "raised"
         /\ UNCHANGED <<console, exitcode>>
    ELSE /\ console' = Append(console, "unexpected_error")
         /\ Terminate(0)

\* The dict update as it would be if a failed command were stored too.
CollectedKeepsFailures(m, label, r) == Put(m, label, r.output)

\* if not error: info[key] = output
Collected(m, label, r) == IF ~Truthy(r.error) THEN Put(m, label, r.output) ELSE m

\* The list update as it would be if a live host were put first.
DiscoveredPrepends(hosts, ip, r) ==
    IF Contains(ReplyMarker, r.output) THEN <<ip>> \o hosts ELSE hosts

\* if "Reply from" in output: active_hosts.append(ip)
Discovered(hosts, ip, r) ==
    IF Contains(ReplyMarker, r.output) THEN Append(hosts, ip) ELSE hosts

\* The test as it would be if it asked whether the option was passed at all.
ShouldSweepIfPresent(s) == s # Nothing

\* if subnet:
ShouldSweep(s) == s # Nothing /\ Truthy(s[1])

\* The check as it would be if it let every platform through.
SupportedAnywhere(name) == name = name

\* verify_windows_environment lets the tool start
Supported(name) == Lower(name) = "windows"

\* main up to the construction of the tool: the banner, the arguments and the
\* output directory.  os.makedirs('') raises, which main's handler reports.
MainStart ==
    /\ pc = "main"
    /\ clock' = clock + 1
    /\ IF outdir = "empty"
       THEN /\ console' = console \o <<"banner", "unexpected_error">>
            /\ Terminate(0)
            /\ UNCHANGED outdir
       ELSE /\ console' = Append(console, "banner")
            /\ outdir' = "exists"
            /\ pc' = "construct"
            /\ UNCHANGED exitcode
    /\ UNCHANGED <<caller, platformName, subnet, runner, results, which, idx, info,
                   active_hosts, ret, total, advanced, issued, last, observed, spawned,
                   orphans, table, exported, writes, calls, sweeps>>

\* WindowsForensicTool.__init__: verify_windows_environment, then self.results.
Construct ==
    /\ pc = "construct"
    /\ clock' = clock + 1
    /\ IF ~Supported(platformName)
       THEN /\ console' = Append(console, "windows_only")
            /\ Terminate(1)
            /\ UNCHANGED results
       ELSE /\ results' = Some(NewReport(clock))
            /\ pc' = "confirm_start"
            /\ UNCHANGED <<console, exitcode>>
    /\ UNCHANGED <<caller, platformName, outdir, subnet, runner, which, idx, info,
                   active_hosts, ret, total, advanced, issued, last, observed, spawned,
                   orphans, table, exported, writes, calls, sweeps>>

\* Confirm.ask("Start forensic analysis?"); on yes run_scan starts and calls
\* get_system_info.
ConfirmStart ==
    /\ pc = "confirm_start"
    /\ clock' = clock + 1
    /\ \E answer \in BOOLEAN :
          IF answer
          THEN /\ EnterCollector("system_info")
               /\ UNCHANGED exitcode
          ELSE /\ Terminate(0)
               /\ UNCHANGED <<which, idx, info, observed, total, advanced, calls>>
    /\ UNCHANGED <<caller, platformName, outdir, subnet, runner, results, active_hosts,
                   ret, issued, last, spawned, orphans, table, exported, console,
                   writes, sweeps>>

\* One iteration of the loop of get_system_info / get_network_info.
CollectStep ==
    /\ pc = "collect"
    /\ idx <= Len(Commands(which))
    /\ LET entry == Commands(which)[idx] IN
       \E o \in Respond(entry.command) :
          /\ Ran(entry.command, o)
          /\ observed' = Append(observed, o)
          /\ IF RunCommand(o).raised
             THEN /\ Propagated
                  /\ UNCHANGED <<info, advanced, idx>>
             ELSE /\ info' = Collected(info, entry.label, RunCommand(o))
                  /\ advanced' = advanced + 1
                  /\ idx' = idx + 1
                  /\ UNCHANGED <<pc, console, exitcode>>
    /\ UNCHANGED <<caller, platformName, outdir, subnet, runner, results, which,
                   active_hosts, ret, total, table, exported, writes, calls, sweeps>>

\* After the loop the collector returns its dict.  run_scan stores it in the
\* Report and goes on: get_network_info after get_system_info; after
\* get_network_info, scan_network if subnet is truthy.
CollectReturn ==
    /\ pc = "collect"
    /\ idx > Len(Commands(which))
    /\ clock' = clock + 1
    /\ ret' = Some(info)
    /\ IF caller = "test"
       THEN /\ pc' = "returned"
            /\ UNCHANGED <<results, writes, which, idx, info, observed, total, advanced,
                           calls, active_hosts>>
       ELSE /\ Assign(which, info)
            /\ IF which = "system_info"
               THEN /\ EnterCollector("network_info")
                    /\ UNCHANGED active_hosts
               ELSE IF ShouldSweep(subnet)
               THEN /\ EnterSweep
                    /\ UNCHANGED <<info, observed>>
               ELSE /\ pc' = "present"
                    /\ UNCHANGED <<which, idx, info, observed, total, advanced, calls,
                                   active_hosts>>
    /\ UNCHANGED <<caller, platformName, outdir, subnet, runner, issued, last, spawned,
                   orphans, table, exported, console, exitcode, sweeps>>

\* One iteration of the loop of scan_network.
SweepStep ==
    /\ pc = "sweep"
    /\ idx < EndHost
    /\ LET ip == HostAddress(subnet[1], idx) IN
       \E o \in Respond(PingCommand(ip)) :
          /\ Ran(PingCommand(ip), o)
          /\ IF RunCommand(o).raised
             THEN /\ Propagated
                  /\ UNCHANGED <<active_hosts, advanced, idx>>
             ELSE /\ active_hosts' = Discovered(active_hosts, ip, RunCommand(o))
                  /\ advanced' = advanced + 1
                  /\ idx' = idx + 1
                  /\ UNCHANGED <<pc, console, exitcode>>
    /\ UNCHANGED <<caller, platformName, outdir, subnet, runner, results, which,
                   info, ret, total, observed, table, exported, writes, calls, sweeps>>

\* After the loop scan_network returns its list, which run_scan stores.
SweepReturn ==
    /\ pc = "sweep"
    /\ idx >= EndHost
    /\ clock' = clock + 1
    /\ ret' = Some(active_hosts)
    /\ IF caller = "test"
       THEN /\ pc' = "returned"
            /\ UNCHANGED <<results, writes>>
       ELSE /\ Assign("active_hosts", active_hosts)
            /\ pc' = "present"
    /\ UNCHANGED <<caller, platformName, outdir, subnet, runner, which, idx, info,
                   active_hosts, total, advanced, issued, last, observed, spawned,
                   orphans, table, exported, console, exitcode, calls, sweeps>>


\* Rows create_results_table adds for one info dict, in insertion order.
RECURSIVE RowsOf(_, _)
RowsOf(cmds, m) ==
    IF cmds = <<>> THEN <<>>
    ELSE LET key == Head(cmds).label IN
         (IF key \in DOMAIN m
          THEN <<[category |-> key,
                  details |-> IF Truthy(m[key]) THEN FirstLine(m[key]) ELSE <<"N/A">>]>>
          ELSE <<>>) \o RowsOf(Tail(cmds), m)

\* create_results_table
ResultsTable(r) ==
    RowsOf(SystemCommands, r.system_info) \o RowsOf(NetworkCommands, r.network_info)
        \o (IF Truthy(r.active_hosts)
            THEN <<[category |-> "Active Hosts", details |-> Join(<<",", " ">>, r.active_hosts)]>>
            ELSE <<>>)

\* The counts of the analysis summary; the host count only when subnet is truthy.
Summary(r) ==
    <<Cardinality(DOMAIN r.system_info), Cardinality(DOMAIN r.network_info)>>
        \o (IF ShouldSweep(subnet) THEN <<Len(r.active_hosts)>> ELSE <<>>)

\* run_scan after the progress display is closed: the table and the summary.
Present ==
    /\ pc = "present"
    /\ clock' = clock + 1
    /\ table' = Some([rows |-> ResultsTable(results[1]), summary |-> Summary(results[1])])
    /\ pc' = "confirm_export"
    /\ UNCHANGED <<caller, platformName, outdir, subnet, runner, results, which, idx,
                   info, active_hosts, ret, total, advanced, issued, last, observed,
                   spawned, orphans, exported, console, exitcode, writes, calls, sweeps>>

\* export_results: json.dump of self.results, or the error message when the
\* file cannot be written.
ExportResults(writable) ==
    /\ exported' = IF writable THEN Some(results[1]) ELSE exported
    /\ console' = Append(console, IF writable THEN "exported" ELSE "export_error")

\* Confirm.ask("Do you want to export ..."), export_results on yes; then
\* run_scan and main return.
ConfirmExport ==
    /\ pc = "confirm_export"
    /\ clock' = clock + 1
    /\ \E answer \in BOOLEAN, writable \in BOOLEAN :
          IF answer THEN ExportResults(writable) ELSE UNCHANGED <<exported, console>>
    /\ Terminate(0)
    /\ UNCHANGED <<caller, platformName, outdir, subnet, runner, results, which, idx,
                   info, active_hosts, ret, total, advanced, issued, last, observed,
                   spawned, orphans, table, writes, calls, sweeps>>

\* Where a KeyboardInterrupt can reach the main thread after the tool exists.
Interruptible == {"confirm_start", "collect", "sweep", "present", "confirm_export"}

\* main's handler of KeyboardInterrupt: the message, then main returns.
Interrupt ==
    /\ caller = "run_scan"
    /\ pc \in Interruptible
    /\ console' = Append(console, "interrupted")
    /\ Terminate(0)
    /\ UNCHANGED <<caller, platformName, outdir, subnet, runner, clock, results, which,
                   idx, info, active_hosts, ret, total, advanced, issued, last, observed,
                   spawned, orphans, table, exported, writes, calls, sweeps>>

\* A child that outlived its run_command call exits by itself.
ChildExit ==
    /\ orphans > 0
    /\ orphans' = orphans - 1
    /\ UNCHANGED <<pc, caller, platformName, outdir, subnet, runner, clock, results,
                   which, idx, info, active_hosts, ret, total, advanced, issued, last,
                   observed, spawned, table, exported, console, exitcode, writes, calls,
                   sweeps>>

\* A test calls scan_network again with the same subnet on the same host.
MaxResweeps == 1

Resweep ==
    /\ caller = "test"
    /\ pc = "returned"
    /\ which = "active_hosts"
    /\ Len(sweeps) < MaxResweeps
    /\ sweeps' = Append(sweeps, ret[1])
    /\ clock' = clock + 1
    /\ EnterSweep
    /\ UNCHANGED <<caller, platformName, outdir, subnet, runner, results, info, ret,
                   issued, last, observed, spawned, orphans, table, exported, console,
                   exitcode, writes>>

\* --------------------------------------------------------- initial states

Net10 == <<"1", "0", ".", "0", ".", "0">>
Malformed == <<"l", "a", "n">>

ShellAny == [c \in ShellCommandTexts |-> ShellOutcomes]
ShellHealthy == [c \in ShellCommandTexts |-> {ExitOk}]
ShellDegraded ==
    [c \in ShellCommandTexts |->
        CASE c = "hostname"      -> {ExitBlank}
          [] c = "systeminfo"    -> {Hang}
          [] c = "netstat -naob" -> {ExitErr}
          [] c = "arp -a"        -> {ExitLaunchFailed}
          [] OTHER               -> {ExitOkStatus1}]
ShellFlaky ==
    [c \in ShellCommandTexts |->
        IF c \in {"net users", "route print"} THEN {ExitOk, ExitErrStatus0} ELSE {ExitOk}]

NoHosts == [h \in {} |-> "silent"]

\* Hosts of the networks the whole program is run against.
ProgramHosts ==
    { NoHosts,
      (5 :> "reply" @@ 200 :> "reply"),
      (5 :> "slow" @@ 200 :> "noisy_reply"),
      (1 :> "reply" @@ 5 :> "broken" @@ 200 :> "noisy_silent" @@ 254 :> "reply") }

\* Hosts of the networks scan_network is tested against: hosts 5 and 200 behave
\* in every way, the first and the last address both reply or both stay silent.
SweepHosts ==
    { mid @@ [h \in {1, 254} |-> edge] :
        mid \in [{5, 200} -> Behaviours], edge \in {"reply", "silent"} }

Idle ==
    /\ clock = 0
    /\ info = EmptyMap
    /\ active_hosts = <<>>
    /\ ret = Nothing
    /\ advanced = 0
    /\ issued = <<>>
    /\ last = Nothing
    /\ observed = <<>>
    /\ spawned = 0
    /\ orphans = 0
    /\ table = Nothing
    /\ exported = Nothing
    /\ console = <<>>
    /\ exitcode = Nothing
    /\ writes = [f \in Fields |-> 0]
    /\ sweeps = <<>>

\* The process starts in main.
Init ==
    /\ Idle
    /\ pc = "main"
    /\ caller = "run_scan"
    /\ platformName \in {"Windows", "Linux"}
    /\ outdir \in {"exists", "missing", "empty"}
    /\ subnet \in {Nothing, Some(<<>>), Some(Net10)}
    /\ runner \in [shell : {ShellHealthy, ShellDegraded, ShellFlaky}, net : {Net10},
                   hosts : ProgramHosts]
    /\ results = Nothing
    /\ calls = <<>>
    /\ which = "system_info" /\ idx = 0 /\ total = 0

Next ==
    \/ MainStart
    \/ Construct
    \/ ConfirmStart
    \/ CollectStep
    \/ CollectReturn
    \/ SweepStep
    \/ SweepReturn
    \/ Present
    \/ ConfirmExport
    \/ Interrupt
    \/ ChildExit

Spec == Init /\ [][Next]_vars


\* A test calls one collector on a host where every command may end in every way.
InitCollect ==
    /\ Idle
    /\ caller = "test"
    /\ platformName = "Windows"
    /\ outdir = "exists"
    /\ subnet = Nothing
    /\ runner = [shell |-> ShellAny, net |-> Net10, hosts |-> NoHosts]
    /\ results = Some(NewReport(0))
    /\ \E w \in {"system_info", "network_info"} :
          /\ pc = "collect"
          /\ calls = <<Collector(w)>>
          /\ which = w /\ idx = 1 /\ total = Len(Commands(w))

NextCollect ==
    \/ CollectStep
    \/ CollectReturn
    \/ ChildExit

SpecCollect == InitCollect /\ [][NextCollect]_vars

\* A test calls scan_network on a host whose answers to pings are fixed.
InitSweep ==
    /\ Idle
    /\ caller = "test"
    /\ platformName = "Windows"
    /\ outdir = "exists"
    /\ subnet \in {Some(Net10), Some(Malformed)}
    /\ runner \in [shell : {ShellHealthy}, net : {Net10}, hosts : SweepHosts]
    /\ results = Some(NewReport(0))
    /\ pc = "sweep"
    /\ calls = <<"scan_network">>
    /\ which = "active_hosts" /\ idx = FirstHost /\ total = SweepTotal

NextSweep ==
    \/ SweepStep
    \/ SweepReturn
    \/ Resweep
    \/ ChildExit

SpecSweep == InitSweep /\ [][NextSweep]_vars


\* ------------------------------------------------------------------ claims

\* A probe succeeded: the command exited and wrote nothing to stderr.
Succeeded(o) == o.kind = "exit" /\ o.stderr = <<>>

AllWhitespace(s) == \A k \in 1..Len(s) : s[k] \in Whitespace

\* out is raw without its leading and trailing whitespace
Trimmed(out, raw) ==
    /\ out = <<>> \/ (out[1] \notin Whitespace /\ out[Len(out)] \notin Whitespace)
    /\ \E a \in 0..Len(raw) :
          /\ a + Len(out) <= Len(raw)
          /\ SubSeq(raw, a + 1, a + Len(out)) = out
          /\ AllWhitespace(SubSeq(raw, 1, a))
          /\ AllWhitespace(SubSeq(raw, a + Len(out) + 1, Len(raw)))

\* The dict of the collector under test: the one returned, or the one being built.
CollectedSoFar == IF pc = "returned" THEN ret[1] ELSE info
FailedSoFar == {k \in 1..Len(observed) : ~Succeeded(observed[k])}

\* C1: in get_system_info and get_network_info, whatever each command does
\* (success, stderr output, timeout, launch error), the keys of the dict are among
\* the five declared labels, a label is present exactly when its own command has
\* run and succeeded, each value is that command's trimmed stdout, and the dict has
\* as many entries as commands run minus commands failed (N-1 when one of N fails).
C1_PresentIffSucceeded ==
    (pc \in {"collect", "returned"} /\ which \in {"system_info", "network_info"}) =>
        LET cmds == Commands(which)
            m == CollectedSoFar
        IN  /\ DOMAIN m \subseteq Labels(which)
            /\ Cardinality(Labels(which)) = 5
            /\ \A k \in 1..Len(cmds) :
                  cmds[k].label \in DOMAIN m <=>
                      (k <= Len(observed) /\ Succeeded(observed[k]))
            /\ \A k \in 1..Len(observed) :
                  Succeeded(observed[k]) => Trimmed(m[cmds[k].label], observed[k].stdout)
            /\ Cardinality(DOMAIN m) = Len(observed) - Cardinality(FailedSoFar)
            /\ pc = "returned" => Len(observed) = Len(cmds)

\* A collector has returned after exactly one of its five commands failed, by a
\* timeout of the second one, and the dict holds the other four.
C1_Witness ==
    /\ pc = "returned"
    /\ which \in {"system_info", "network_info"}
    /\ FailedSoFar = {2}
    /\ observed[2].kind = "timeout"
    /\ Cardinality(DOMAIN ret[1]) = 4

\* C2: a run_command call that times out returns a failed result with the
\* timeout reason, and no child process is still running after the call that
\* spawned it has returned.
C2_TimeoutEndsChild ==
    /\ (last # Nothing /\ last[1].outcome.kind = "timeout") =>
          /\ last[1].result.output = <<>>
          /\ last[1].result.error = TimedOutMessage
    /\ orphans = 0

\* C3: every run_command call returns a pair and raises nothing; after an exit
\* the output is the trimmed stdout and the call failed exactly when stderr is
\* non-empty, whatever the exit status and stdout; after a timeout or a launch
\* error the output is empty and the reason is not; every call launches one process.
C3_RunCommandResult ==
    /\ spawned = Len(issued)
    /\ last # Nothing =>
          LET o == last[1].outcome
              r == last[1].result
          IN  /\ ~r.raised
              /\ r.popen = 1
              /\ o.kind = "exit" =>
                    /\ Trimmed(r.output, o.stdout)
                    /\ Truthy(r.error) <=> o.stderr # <<>>
              /\ o.kind # "exit" =>
                    /\ r.output = <<>>
                    /\ Truthy(r.error)

\* A command has exited with status 1, output on stdout and nothing on stderr,
\* and run_command returned its trimmed output as a success.
C3_Witness ==
    /\ last # Nothing
    /\ last[1].outcome.kind = "exit"
    /\ last[1].outcome.code = 1
    /\ last[1].outcome.stderr = <<>>
    /\ last[1].result.output = <<"a", "\n", "b">>
    /\ ~Truthy(last[1].result.error)


\* The sweep in progress or just returned to a test.
InSweep == pc \in {"sweep", "returned"} /\ which = "active_hosts"

\* The address pinged by the k-th probe of the current sweep.
SweepTarget(k) == Tail(issued[Len(issued) - advanced + k])

InList(x, list) == \E k \in 1..Len(list) : list[k] = x
NoDuplicates(list) == \A j, k \in 1..Len(list) : list[j] = list[k] => j = k

\* C4: scan_network pings host numbers 1, 2, ..., 254 of the subnet, each once and
\* in this order, never 0 or 255, advances its progress subtask once per probe (254
\* times in all) and returns at most 254 addresses, none ending in .0 or .255 and
\* none twice.
C4_SweepRange ==
    /\ pc = "sweep" =>
          /\ idx \in 1..255
          /\ advanced = idx - 1
          /\ Len(active_hosts) <= advanced
          /\ advanced > 0 =>
                /\ Head(issued[Len(issued)]) = PingPrefix
                /\ NetOf(SweepTarget(advanced)) = subnet[1]
                /\ HostNumberOf(SweepTarget(advanced)) = advanced
    /\ (pc = "returned" /\ which = "active_hosts") =>
          /\ advanced = 254
          /\ total = 254
          /\ \A k \in 1..advanced : HostNumberOf(SweepTarget(k)) = k
          /\ Len(ret[1]) <= 254
          /\ NoDuplicates(ret[1])
          /\ \A k \in 1..Len(ret[1]) :
                /\ ~EndsWith(ret[1][k], <<".", "0">>)
                /\ ~EndsWith(ret[1][k], <<".", "2", "5", "5">>)
                /\ HostNumberOf(ret[1][k]) \in 1..254

\* A sweep of 10.0.0 has returned the four live hosts 1, 5, 200 and 254.
C4_Witness ==
    /\ pc = "returned"
    /\ which = "active_hosts"
    /\ Len(ret[1]) = 4
    /\ ret[1][1] = Net10 \o <<".", "1">>
    /\ ret[1][4] = Net10 \o <<".", "2", "5", "4">>

\* Host h answers a ping with output that holds the reply marker.
Replies(net, h) ==
    LET o == PingOutcome(HostAddress(net, h))
    IN  o.kind = "exit" /\ Contains(ReplyMarker, o.stdout)

\* list holds exactly the addresses net.h, h in 1..254, that reply, ascending in h.
IsRepliersAscending(list, net) ==
    /\ Len(list) = Cardinality({h \in 1..254 : Replies(net, h)})
    /\ \A k \in 1..Len(list) :
          /\ HostNumberOf(list[k]) \in 1..254
          /\ Replies(net, HostNumberOf(list[k]))
          /\ list[k] = net \o <<".">> \o IntToStr(HostNumberOf(list[k]))
    /\ \A j, k \in 1..Len(list) : j < k => HostNumberOf(list[j]) < HostNumberOf(list[k])

IsPrefix(a, b) == Len(a) <= Len(b) /\ SubSeq(b, 1, Len(a)) = a

C5_Result ==
    (pc = "returned" /\ which = "active_hosts") =>
        /\ IsRepliersAscending(ret[1], subnet[1])
        /\ sweeps # <<>> => ret[1] = sweeps[1]
        /\ (/\ subnet[1] = Net10
            /\ {h \in DOMAIN runner.hosts :
                   runner.hosts[h] \in {"reply", "noisy_reply"}} = {5, 200})
              => ret[1] = << <<"1", "0", ".", "0", ".", "0", ".", "5">>,
                             <<"1", "0", ".", "0", ".", "0", ".", "2", "0", "0">> >>

C5_AppendOnly ==
    (pc = "sweep" /\ pc' \in {"sweep", "returned"}) =>
        /\ IsPrefix(active_hosts, active_hosts')
        /\ pc' = "returned" => ret'[1] = active_hosts

\* C5: on a host whose answers are fixed, scan_network returns exactly the
\* addresses subnet.h, h in 1..254, whose ping output holds "Reply from", in
\* ascending order of h; during the sweep the list only grows at its end; a second
\* sweep of the same subnet returns the same list; with only hosts 5 and 200 of
\* 10.0.0 replying the list is [10.0.0.5, 10.0.0.200].
C5_SweepResult == []C5_Result /\ [][C5_AppendOnly]_vars

\* The second sweep of 10.0.0 has returned [10.0.0.5, 10.0.0.200], like the first.
C5_Witness ==
    /\ pc = "returned"
    /\ which = "active_hosts"
    /\ sweeps # <<>>
    /\ sweeps[1] = ret[1]
    /\ ret[1] = <<HostAddress(Net10, 5), HostAddress(Net10, 200)>>

\* The latest probe of the sweep failed by a timeout or a launch error.
NoOutputFailure(o) == o.kind \in {"timeout", "launch_error"}

\* No probe has ended the sweep with an exception.
NoProbeRaised ==
    /\ pc # "raised"
    /\ ~InList("unexpected_error", console)
    /\ last # Nothing => ~last[1].result.raised

\* The sweep went on to the host number after the latest probe's.
ProbePassed == idx = HostNumberOf(Tail(last[1].command)) + 1

SubnetGiven == subnet # Nothing /\ Len(subnet[1]) > 0

\* The phase of the Report Aggregator the program is in.
Phase ==
    CASE pc \in {"main", "construct"}                 -> "NotCreated"
      [] pc = "confirm_start"                          -> "Created"
      [] pc = "collect" /\ which = "system_info"       -> "CollectingSystemInfo"
      [] pc = "collect" /\ which = "network_info"      -> "CollectingNetworkInfo"
      [] pc = "sweep"                                  -> "SweepingSubnet"
      [] pc \in {"present", "confirm_export"}          -> "Complete"
      [] OTHER                                         -> "Ended"

WritesAre(s, n, h) ==
    writes = [f \in Fields |->
                IF f = "system_info" THEN s ELSE IF f = "network_info" THEN n ELSE h]

C6_PhaseState ==
    /\ \A f \in Fields : writes[f] <= 1
    /\ Phase = "Created" => calls = <<>> /\ WritesAre(0, 0, 0)
    /\ Phase = "CollectingSystemInfo" =>
          calls = <<"get_system_info">> /\ WritesAre(0, 0, 0)
    /\ Phase = "CollectingNetworkInfo" =>
          calls = <<"get_system_info", "get_network_info">> /\ WritesAre(1, 0, 0)
    /\ Phase = "SweepingSubnet" =>
          /\ SubnetGiven
          /\ calls = <<"get_system_info", "get_network_info", "scan_network">>
          /\ WritesAre(1, 1, 0)
    /\ Phase = "Complete" =>
          IF SubnetGiven
          THEN /\ calls = <<"get_system_info", "get_network_info", "scan_network">>
               /\ WritesAre(1, 1, 1)
          ELSE /\ calls = <<"get_system_info", "get_network_info">>
               /\ WritesAre(1, 1, 0)

C6_PhaseStep ==
    /\ Phase' # Phase =>
          \/ Phase' = "Ended"
          \/ <<Phase, Phase'>> \in
                {<<"NotCreated", "Created">>,
                 <<"Created", "CollectingSystemInfo">>,
                 <<"CollectingSystemInfo", "CollectingNetworkInfo">>,
                 <<"SweepingSubnet", "Complete">>}
          \/ <<Phase, Phase'>> = <<"CollectingNetworkInfo", "SweepingSubnet">> /\ SubnetGiven
          \/ <<Phase, Phase'>> = <<"CollectingNetworkInfo", "Complete">> /\ ~SubnetGiven
    /\ Phase \in {"Complete", "Ended"} => results' = results
    /\ (results # Nothing /\ results' # results) =>
          /\ Phase \in {"CollectingSystemInfo", "CollectingNetworkInfo", "SweepingSubnet"}
          /\ Phase' # Phase
          /\ results'[1][which] = ret'[1]
          /\ \A f \in DOMAIN results[1] : f # which => results'[1][f] = results[1][f]

\* C6: a run goes through Created, CollectingSystemInfo, CollectingNetworkInfo,
\* SweepingSubnet (exactly when a subnet was given) and Complete in this order
\* without skipping or re-entering a phase; each phase calls one collector and, when
\* it ends, stores that collector's result in its own field of the Report and in no
\* other; no field is stored twice; once Complete is reached the table, the summary
\* and the export leave the Report as it is.
C6_Phases == []C6_PhaseState /\ [][C6_PhaseStep]_vars

\* A run with a subnet has ended after the export: three collectors were called,
\* each field was stored once and the exported Report is the Report.
C6_Witness ==
    /\ pc = "done"
    /\ SubnetGiven
    /\ table # Nothing
    /\ exported = results
    /\ calls = <<"get_system_info", "get_network_info", "scan_network">>
    /\ WritesAre(1, 1, 1)

NoPingIssued == \A k \in 1..Len(issued) : Head(issued[k]) # PingPrefix

C7_NoSubnet ==
    (results # Nothing /\ ~SubnetGiven) =>
        /\ results[1].active_hosts = <<>>
        /\ writes["active_hosts"] = 0
        /\ NoPingIssued

C7_TimestampStep ==
    /\ (results = Nothing /\ results' # Nothing) =>
          /\ results'[1].timestamp = clock
          /\ results'[1].active_hosts = <<>>
    /\ results # Nothing =>
          /\ results' # Nothing
          /\ results'[1].timestamp = results[1].timestamp

\* C7: the timestamp of the Report is the time of its creation and no later step
\* (a collection phase, the sweep, the table, the export) changes it; when no subnet
\* is given active_hosts stays the empty list of the creation and no ping is issued.
C7_TimestampAndNoSweep == []C7_NoSubnet /\ [][C7_TimestampStep]_vars

\* A full run without the subnet option has ended after the export, later than
\* the timestamp, with both dicts filled and no host.
C7_Witness ==
    /\ pc = "done"
    /\ subnet = Nothing
    /\ exported # Nothing
    /\ exported[1].timestamp < clock
    /\ exported[1].active_hosts = <<>>
    /\ Cardinality(DOMAIN exported[1].system_info) = 5
    /\ Cardinality(DOMAIN exported[1].network_info) = 5

\* C9: on a platform other than Windows no Report is created, no command and no
\* ping is run, no table is built and nothing is exported; the process ends at
\* startup with an error: the Windows-only message and exit status 1, or, when the
\* output directory cannot be prepared, the error main reports before the check.
C9_UnsupportedFailsFast ==
    platformName # "Windows" =>
        /\ results = Nothing
        /\ issued = <<>>
        /\ spawned = 0
        /\ calls = <<>>
        /\ table = Nothing
        /\ exported = Nothing
        /\ pc \in {"main", "construct", "done"}
        /\ pc = "done" =>
              \/ InList("windows_only", console) /\ exitcode = Some(1)
              \/ InList("unexpected_error", console) /\ outdir = "empty"

\* On Linux the process has ended with the Windows-only message and status 1.
C9_Witness ==
    /\ platformName = "Linux"
    /\ pc = "done"
    /\ console = <<"banner", "windows_only">>
    /\ exitcode = Some(1)
    /\ results = Nothing

\* C10: when the user interrupts a run whose collection has started, the process
\* stops without a crash and the Report with the phases finished so far is
\* surfaced: shown as a table or exported.
C10_InterruptSurfacesReport ==
    (pc = "done" /\ InList("interrupted", console) /\ calls # <<>>) =>
        /\ ~InList("unexpected_error", console)
        /\ exitcode = Some(0)
        /\ table # Nothing \/ exported # Nothing

====
